---- MODULE Spec2Model ----
(***************************************************************************)
(* Model of the image-generation pipeline of code-snippet-generator:       *)
(* the ContentGenerator class in its three source variants                 *)
(*   "local"  : contentGenerator.ts writing to public/generated-images     *)
(*              (src/unnamed/part_000),                                    *)
(*   "remote" : contentGenerator.ts uploading to S3 (src/unnamed/part_002),*)
(*   "legacy" : the ContentGenerator class embedded in route.ts            *)
(*              (lines 141-246),                                           *)
(* and the agent tool adapter receive_important_code_snippets (agent.ts).  *)
(*                                                                         *)
(* Strings built by template literals are sequences of tokens, so that a   *)
(* prefix of a message is a prefix of the sequence.  uuidv4() is modelled  *)
(* as a fresh identifier; fs.mkdtempSync as a directory name that does not *)
(* exist at the time of the call.  The JavaScript thread is single: while  *)
(* spawnSync blocks (busy # 0) no other handler runs.                      *)
(***************************************************************************)
EXTENDS Integers, Sequences, FiniteSets, TLC

\* ------------------------------------------------------------------ bounds
MaxCalls == 2        \* generateCodeImage / generateDiagramImage calls per run
MaxSnippets == 2     \* snippets handed to one adapter call

CallIds == 1..MaxCalls
NoCall == 0
Direct == "direct"   \* owner of a call made directly on a ContentGenerator
Adapter == "adapter" \* owner of a call made by receive_important_code_snippets

Variants == {"local", "remote", "legacy"}
Suffixes == 1..MaxCalls     \* suffixes mkdtemp may append
Uuids == 1..MaxCalls        \* values uuidv4() may return
NoUuid == 0
SnippetTexts == {"s1", "s2"}

\* result.status / close code: 0, 1, or null when killed by a signal
StatusNull == -1
ExitStatuses == {0, 1, StatusNull}

NoDir == <<>>
NoName == <<>>
NoMsg == <<>>

VARIABLES
    variant,     \* which ContentGenerator source is deployed
    bucketName,  \* process.env.BAWS_S3_BUCKET || ''
    cdnDomain,   \* process.env.CDN_DOMAIN || ''
    alive,       \* FALSE once an uncaught exception has terminated node
    busy,        \* call whose spawnSync blocks the thread, or NoCall
    gen,         \* the directly used ContentGenerator: "none", "ready", "failed"
    calls,       \* one record per generate* call
    tmp,         \* os.tmpdir(): existing workspace directories and their files
    publicDir,   \* public/generated-images exists
    store,       \* artifact store: set of [name, content]
    usedUuids,   \* uuids handed out so far
    adapter,     \* the receive_important_code_snippets call
    http,        \* one request handled by POST and its response
    cli,         \* the carbon-now command line built for one code call
    ui           \* the chat component in the browser

\* the state of the image pipeline
coreVars == <<variant, bucketName, cdnDomain, alive, busy, gen, calls, tmp,
              publicDir, store, usedUuids, adapter>>

vars == <<coreVars, http, cli, ui>>

\* ------------------------------------------------------------ conversions
\* `${result.status}` in a template literal
StatusText(st) ==
    IF st = 0 THEN "0" ELSE IF st = 1 THEN "1" ELSE "null"

\* `${prefix}${(e as Error).message}`
Wrap(prefix, msg) == <<prefix>> \o msg

CodePrefix == "Failed to generate code snapshot: "
DiagramPrefix == "Failed to generate diagram: "
AdapterPrefix == "Failed to process snippets: "

\* the text of the u-th value of uuidv4(): hexadecimal digits and hyphens
UuidTexts == <<"1b-4a", "2c-4b", "3d-4c", "4e-4d">>
UuidText(u) == UuidTexts[u]

\* `${outputUuid}.png`
FileName(u) == <<UuidText(u), ".png">>

\* the leading slash forgotten: a path relative to the page
LocalRef_Relative(fileName) == <<"generated-images/">> \o fileName

\* `/generated-images/${fileName}`
LocalRef(fileName) == <<"/generated-images/">> \o fileName

\* `generated-images/${fileName}`
S3Key(fileName) == <<"generated-images/">> \o fileName

\* the CDN branch left out: always the bucket URL
S3Url_BucketOnly(fileName) ==
    <<"https://", bucketName, ".s3.amazonaws.com/">> \o S3Key(fileName)

\* uploadToS3's return value
S3Url(fileName) ==
    IF cdnDomain # ""
    THEN <<"https://", cdnDomain, "/">> \o S3Key(fileName)
    ELSE <<"https://", bucketName, ".s3.amazonaws.com/">> \o S3Key(fileName)

\* what a failing renderer may have written to its standard error
StderrTexts == {NoMsg, <<"Error: render failed">>}

\* ----------------------------------------------------------------- records
IdleCall ==
    [kind |-> "none", pc |-> "idle", owner |-> Direct, index |-> 0,
     sync |-> FALSE, tempDir |-> NoDir, uuid |-> NoUuid, fileName |-> NoName,
     proc |-> "none", status |-> StatusNull, stderr |-> NoMsg,
     spawns |-> 0, persists |-> 0,
     result |-> NoMsg, error |-> NoMsg]

\* a request that has not arrived yet; impl names the source of POST
IdleHttp(impl) ==
    [impl |-> impl, pc |-> "idle", req |-> "", agentRan |-> FALSE,
     agent |-> "", parts |-> <<>>, final |-> <<>>,
     raised |-> NoMsg,
     status |-> 0, message |-> NoMsg, response |-> <<>>, images |-> <<>>]

RouteImpls == {"route.ts", "part_003"}

\* an optional string argument: <<>> is undefined, <<s>> is the string s
Undefined == <<>>

IdleCli ==
    [pc |-> "none", configured |-> Undefined, explicit |-> Undefined,
     command |-> <<>>]

\* CodeReviewInterface.tsx:32-34: the component after its first render;
\* submits and sent count the handleSubmit calls and the fetches so far
IdleUi ==
    [messages |-> <<>>, inputValue |-> <<>>, isLoading |-> FALSE,
     pc |-> "idle", submits |-> 0, sent |-> 0, outcome |-> ""]

IdleAdapter ==
    [pc |-> "idle", snippets |-> <<>>, idx |-> 0, cur |-> NoCall,
     out |-> <<>>, ret |-> <<>>, error |-> NoMsg, renders |-> 0]

Reject(call, msg) == [call EXCEPT !.pc = "rejected", !.error = msg]
Resolve(call, ref) == [call EXCEPT !.pc = "resolved", !.result = ref]
\* an exception thrown inside an event callback: the promise stays pending
Uncaught(call, msg) == [call EXCEPT !.pc = "uncaught", !.error = msg]

Settled(c) == calls[c].pc \in {"resolved", "rejected"}

\* a listener on 'spawn' instead of 'close': runs while the child runs
ProcTerminated_Early(c) == calls[c].proc \in {"running", "exited"}

\* the 'close' event / the return of spawnSync: the child has terminated
ProcTerminated(c) == calls[c].proc = "exited"

\* `status > 0`: lets a child killed by a signal (status null) pass
ExitFailed_Positive(st) == st > 0

\* `result.status !== 0` / `code !== 0`
ExitFailed(st) == st # 0

\* the workspace created by call c is still on disk
WorkspaceExists(c) ==
    /\ calls[c].tempDir \in DOMAIN tmp
    /\ tmp[calls[c].tempDir].owner = c

RemoveDir(dir) == [d \in (DOMAIN tmp) \ {dir} |-> tmp[d]]
\* the destination is created but the bytes are not written
PutStore_Empty(name, content) ==
    {e \in store : e.name # name} \cup {[name |-> name, content |-> NoCall]}

\* fs.copyFileSync(src, dest) / PutObject: the file or object `name` now
\* holds the bytes `content`, replacing what it held
PutStore(name, content) ==
    {e \in store : e.name # name} \cup {[name |-> name, content |-> content]}

\* rmSync placed ahead of the awaited upload
AwaitingUpload_Removed(dir) == RemoveDir(dir)

\* part_002:107-110, 162-165: fs.rmSync stands behind
\* `await this.uploadToS3(...)`; while the upload is pending the workspace
\* is left as it is
AwaitingUpload(dir) == tmp

Min(S) == CHOOSE x \in S : \A y \in S : x <= y

\* uuidv4(): a value that was never returned before
FreshUuid == Min(Uuids \ usedUuids)

\* fs.mkdtempSync(prefix): appends a suffix such that the directory does not
\* exist yet, and creates it
Mkdtemp(prefix) == <<prefix, Min({x \in Suffixes : <<prefix, x>> \notin DOMAIN tmp})>>

\* -------------------------------------------------------------------- Init
InitCore ==
    /\ variant \in Variants
    /\ bucketName \in (IF variant = "remote" THEN {"", "bkt"} ELSE {""})
    /\ cdnDomain \in (IF variant = "remote" THEN {"", "cdn.example"} ELSE {""})
    /\ alive = TRUE
    /\ busy = NoCall
    /\ gen = "none"
    /\ calls = [c \in CallIds |-> IdleCall]
    /\ tmp = << >>
    /\ publicDir \in BOOLEAN
    /\ store = {}
    /\ usedUuids = {}
    /\ adapter = IdleAdapter

\* the pipeline on its own: no request is looked at
Init ==
    /\ InitCore
    /\ http = IdleHttp("route.ts")
    /\ cli = IdleCli
    /\ ui = IdleUi

\* ------------------------------------------------------------- constructor
\* the bucket check left out
ConstructorThrows_Never == FALSE

\* `if (!this.bucketName) throw new Error(...)` of the remote variant
ConstructorThrows == variant = "remote" /\ bucketName = ""

ConfigError == <<"AWS_S3_BUCKET environment variable is required">>

\* a constructor that takes the directory for granted
ConstructorPublicDir_Assumed == publicDir

\* the directory the local constructor creates when absent
ConstructorPublicDir == IF variant = "local" THEN TRUE ELSE publicDir

\* new ContentGenerator(...) by a direct user of the class
NewContentGenerator ==
    /\ alive /\ busy = NoCall
    /\ gen = "none"
    /\ gen' = IF ConstructorThrows THEN "failed" ELSE "ready"
    /\ publicDir' = IF ConstructorThrows THEN publicDir ELSE ConstructorPublicDir
    /\ UNCHANGED <<http, cli, ui, variant, bucketName, cdnDomain, alive, busy, calls, tmp,
                   store, usedUuids, adapter>>

\* -------------------------------------------- generateCodeImage, blocking
\* part_000:20-45 and part_002:52-81: everything up to and including
\* spawnSync's launch.  The call either throws into the catch clause
\* (rejected with the prefixed message) or blocks the thread on the child.
CodeSyncBegin(c, owner, index) ==
    /\ alive /\ busy = NoCall
    /\ variant \in {"local", "remote"}
    /\ calls[c].pc = "idle"
    /\ \E outcome \in {"mkdtempFail", "writeFail", "launchFail", "spawned"} :
         LET dir == Mkdtemp("code-")
             u == FreshUuid
             base == [calls[c] EXCEPT !.kind = "code", !.owner = owner,
                                      !.index = index, !.sync = TRUE]
             staged == [base EXCEPT !.tempDir = dir, !.uuid = u]
             newCall ==
                 CASE outcome = "mkdtempFail" ->
                        Reject(base, Wrap(CodePrefix, <<"ENOSPC: mkdtemp">>))
                   [] outcome = "writeFail" ->
                        Reject(staged, Wrap(CodePrefix, <<"ENOSPC: write">>))
                   [] outcome = "launchFail" ->
                        Reject([staged EXCEPT !.spawns = @ + 1, !.proc = "failed"],
                               Wrap(CodePrefix, <<"spawnSync carbon-now ENOENT">>))
                   [] OTHER ->
                        [staged EXCEPT !.spawns = @ + 1, !.proc = "running",
                                       !.pc = "waiting"]
         IN /\ calls' = [calls EXCEPT ![c] = newCall]
            /\ tmp' = IF outcome = "mkdtempFail" THEN tmp
                      ELSE (dir :> [owner |-> c, input |-> outcome # "writeFail", png |-> NoCall]) @@ tmp
            /\ usedUuids' = IF outcome = "mkdtempFail" THEN usedUuids
                            ELSE usedUuids \cup {u}
            /\ busy' = IF outcome = "spawned" THEN c ELSE NoCall
    /\ UNCHANGED <<http, cli, ui, variant, bucketName, cdnDomain, alive, publicDir, store>>

\* the external renderer terminates: exit status and whether it left its
\* output file (a *.png for carbon-now, diagram.png for mmdc) in the workspace
ProcExit(c) ==
    /\ calls[c].proc = "running"
    /\ \E st \in ExitStatuses, wrote \in BOOLEAN, err \in StderrTexts :
         /\ st = 0 => err = NoMsg
         /\ calls' = [calls EXCEPT ![c].proc = "exited", ![c].status = st,
                                   ![c].stderr = err]
         /\ tmp' = IF wrote /\ calls[c].tempDir \in DOMAIN tmp
                   THEN [tmp EXCEPT ![calls[c].tempDir].png = c]
                   ELSE tmp
    /\ UNCHANGED <<http, cli, ui, variant, bucketName, cdnDomain, alive, busy, gen,
                   publicDir, store, usedUuids, adapter>>

\* part_000:47-79: spawnSync has returned; status check, readdir, copy,
\* rmSync, return -- one synchronous run inside the try block
CodeSyncReturnLocal(c) ==
    /\ alive /\ busy = c
    /\ variant = "local"
    /\ calls[c].pc = "waiting" /\ calls[c].kind = "code"
    /\ ProcTerminated(c)
    /\ LET call == calls[c]
           dir == call.tempDir
           named == [call EXCEPT !.fileName = FileName(call.uuid),
                                 !.persists = @ + 1]
       IN \E copyOk \in BOOLEAN, rmOk \in BOOLEAN :
            IF ExitFailed(call.status) THEN
                /\ calls' = [calls EXCEPT ![c] = Reject(call,
                       Wrap(CodePrefix, <<"Carbon CLI failed with status ",
                                          StatusText(call.status)>>))]
                /\ UNCHANGED <<tmp, store>>
            ELSE IF tmp[dir].png = NoCall THEN
                /\ calls' = [calls EXCEPT ![c] = Reject(call,
                       Wrap(CodePrefix, <<"No image was generated">>))]
                /\ UNCHANGED <<tmp, store>>
            ELSE IF ~(copyOk /\ publicDir) THEN
                /\ calls' = [calls EXCEPT ![c] = Reject(named,
                       Wrap(CodePrefix, <<"ENOSPC: copyfile">>))]
                /\ UNCHANGED <<tmp, store>>
            ELSE IF ~rmOk THEN
                /\ calls' = [calls EXCEPT ![c] = Reject(named,
                       Wrap(CodePrefix, <<"EBUSY: rm">>))]
                /\ store' = PutStore(named.fileName, tmp[dir].png)
                /\ UNCHANGED tmp
            ELSE
                /\ calls' = [calls EXCEPT ![c] = Resolve(named,
                       LocalRef(named.fileName))]
                /\ store' = PutStore(named.fileName, tmp[dir].png)
                /\ tmp' = RemoveDir(dir)
    /\ busy' = NoCall
    /\ UNCHANGED <<http, cli, ui, variant, bucketName, cdnDomain, alive, gen, publicDir,
                   usedUuids, adapter>>

\* part_002:83-107: spawnSync has returned; status check, readdir, then
\* uploadToS3 runs up to its `await this.s3Client.send(...)` (part_002:34-43)
CodeSyncReturnRemote(c) ==
    /\ alive /\ busy = c
    /\ variant = "remote"
    /\ calls[c].pc = "waiting" /\ calls[c].kind = "code"
    /\ ProcTerminated(c)
    /\ LET call == calls[c]
           dir == call.tempDir
           named == [call EXCEPT !.fileName = FileName(call.uuid)]
       IN \E readOk \in BOOLEAN :
            calls' = [calls EXCEPT ![c] =
                IF ExitFailed(call.status) THEN
                    Reject(call, Wrap(CodePrefix,
                        <<"Carbon CLI failed with status ", StatusText(call.status)>>))
                ELSE IF tmp[dir].png = NoCall THEN
                    Reject(call, Wrap(CodePrefix, <<"No image was generated">>))
                ELSE IF ~readOk THEN
                    Reject(named, Wrap(CodePrefix, <<"EIO: read">>))
                ELSE [named EXCEPT !.pc = "uploading", !.persists = @ + 1]]
    /\ tmp' = IF calls'[c].pc = "uploading"
              THEN AwaitingUpload(calls[c].tempDir) ELSE tmp
    /\ busy' = NoCall
    /\ UNCHANGED <<http, cli, ui, variant, bucketName, cdnDomain, alive, gen, publicDir,
                   store, usedUuids, adapter>>

\* part_002:38-49 and the continuation of the awaiting caller
\* (part_002:107-117 for code, part_002:162-168 for diagrams): the upload
\* settles; the code path wraps a failure, the diagram path passes it on
UploadSettle(c) ==
    /\ alive /\ busy = NoCall
    /\ calls[c].pc = "uploading"
    /\ LET call == calls[c]
           dir == call.tempDir
           surfaced(msg) == IF call.kind = "code" THEN Wrap(CodePrefix, msg) ELSE msg
       IN \E sendOk \in BOOLEAN, rmOk \in BOOLEAN :
            IF ~sendOk THEN
                /\ calls' = [calls EXCEPT ![c] = Reject(call, surfaced(<<"S3 PutObject failed">>))]
                /\ UNCHANGED <<tmp, store>>
            ELSE IF ~rmOk THEN
                /\ calls' = [calls EXCEPT ![c] = Reject(call, surfaced(<<"EBUSY: rm">>))]
                /\ store' = PutStore(S3Key(call.fileName), tmp[dir].png)
                /\ UNCHANGED tmp
            ELSE
                /\ calls' = [calls EXCEPT ![c] = Resolve(call, S3Url(call.fileName))]
                /\ store' = PutStore(S3Key(call.fileName), tmp[dir].png)
                /\ tmp' = RemoveDir(dir)
    /\ UNCHANGED <<http, cli, ui, variant, bucketName, cdnDomain, alive, busy, gen, publicDir,
                   usedUuids, adapter>>

\* ---------------------------------------------- event-based spawn (async)
\* part_000:86-118, part_002:120-152, route.ts:196-227 (diagram) and
\* route.ts:148-165 (legacy code): stage the workspace inside the try block,
\* then `return new Promise(...)` whose executor calls spawn.  Errors thrown
\* before the promise is built are wrapped; a throw of spawn itself rejects
\* the promise unwrapped; ENOENT/EACCES arrive later as an 'error' event.
AsyncBegin(c, kind, owner, index) ==
    /\ alive /\ busy = NoCall
    /\ calls[c].pc = "idle"
    /\ \E outcome \in {"mkdtempFail", "writeFail", "spawnThrows", "launchFail", "spawned"} :
         LET dir == Mkdtemp(IF kind = "code" THEN "code-" ELSE "diagram-")
             u == FreshUuid
             prefix == IF kind = "code" THEN CodePrefix ELSE DiagramPrefix
             hasUuid == ~(variant = "legacy" /\ kind = "diagram")
             base == [calls[c] EXCEPT !.kind = kind, !.owner = owner,
                                      !.index = index, !.sync = FALSE]
             staged == [base EXCEPT !.tempDir = dir,
                                    !.uuid = IF hasUuid THEN u ELSE NoUuid]
             newCall ==
                 CASE outcome = "mkdtempFail" ->
                        Reject(base, Wrap(prefix, <<"ENOSPC: mkdtemp">>))
                   [] outcome = "writeFail" ->
                        Reject(staged, Wrap(prefix, <<"ENOSPC: write">>))
                   [] outcome = "spawnThrows" ->
                        Reject([staged EXCEPT !.spawns = @ + 1, !.proc = "failed"],
                               <<"spawn ENOMEM">>)
                   [] outcome = "launchFail" ->
                        [staged EXCEPT !.spawns = @ + 1, !.proc = "failed",
                                       !.pc = "waiting"]
                   [] OTHER ->
                        [staged EXCEPT !.spawns = @ + 1, !.proc = "running",
                                       !.pc = "waiting"]
         IN /\ calls' = [calls EXCEPT ![c] = newCall]
            /\ tmp' = IF outcome = "mkdtempFail" THEN tmp
                      ELSE (dir :> [owner |-> c, input |-> outcome # "writeFail", png |-> NoCall]) @@ tmp
            /\ usedUuids' = IF outcome = "mkdtempFail" \/ ~hasUuid THEN usedUuids
                            ELSE usedUuids \cup {u}
    /\ UNCHANGED <<http, cli, ui, variant, bucketName, cdnDomain, alive, busy, publicDir, store>>

\* an exception escapes an event callback: node terminates unless the host
\* has installed an uncaughtException handler
UncaughtOutcomes == BOOLEAN

\* the 'error' event of a child that could not be started; none of the
\* variants registers a listener, so emitting it throws
SpawnError(c) ==
    /\ alive /\ busy = NoCall
    /\ calls[c].pc = "waiting" /\ ~calls[c].sync
    /\ calls[c].proc = "failed"
    /\ calls' = [calls EXCEPT ![c] = Uncaught(calls[c], <<"spawn ENOENT">>)]
    /\ alive' \in UncaughtOutcomes
    /\ UNCHANGED <<http, cli, ui, variant, bucketName, cdnDomain, busy, gen, tmp, publicDir,
                   store, usedUuids, adapter>>

\* part_000:120-132: the 'close' listener of the local generateDiagramImage;
\* copyFileSync and rmSync run unguarded inside the listener
DiagramCloseLocal(c) ==
    /\ alive /\ busy = NoCall
    /\ variant = "local"
    /\ calls[c].pc = "waiting" /\ calls[c].kind = "diagram"
    /\ ProcTerminated(c)
    /\ LET call == calls[c]
           dir == call.tempDir
           named == [call EXCEPT !.fileName = FileName(call.uuid),
                                 !.persists = @ + 1]
       IN \E copyOk \in BOOLEAN, rmOk \in BOOLEAN, survives \in UncaughtOutcomes :
            IF ExitFailed(call.status) THEN
                /\ calls' = [calls EXCEPT ![c] = Reject(call, <<"Mermaid CLI failed">>)]
                /\ UNCHANGED <<tmp, store, alive>>
            ELSE IF tmp[dir].png = NoCall \/ ~(copyOk /\ publicDir) THEN
                /\ calls' = [calls EXCEPT ![c] = Uncaught(named, <<"ENOENT: copyfile">>)]
                /\ alive' = survives
                /\ UNCHANGED <<tmp, store>>
            ELSE IF ~rmOk THEN
                /\ calls' = [calls EXCEPT ![c] = Uncaught(named, <<"EBUSY: rm">>)]
                /\ store' = PutStore(named.fileName, tmp[dir].png)
                /\ alive' = survives
                /\ UNCHANGED tmp
            ELSE
                /\ calls' = [calls EXCEPT ![c] = Resolve(named, LocalRef(named.fileName))]
                /\ store' = PutStore(named.fileName, tmp[dir].png)
                /\ tmp' = RemoveDir(dir)
                /\ UNCHANGED alive
    /\ UNCHANGED <<http, cli, ui, variant, bucketName, cdnDomain, busy, gen, publicDir,
                   usedUuids, adapter>>

\* part_002:154-169: the async 'close' listener of the remote
\* generateDiagramImage; uploadToS3 is awaited inside try/catch, and its
\* readFileSync (part_002:35) throws when diagram.png is absent
DiagramCloseRemote(c) ==
    /\ alive /\ busy = NoCall
    /\ variant = "remote"
    /\ calls[c].pc = "waiting" /\ calls[c].kind = "diagram"
    /\ ProcTerminated(c)
    /\ LET call == calls[c]
           dir == call.tempDir
           named == [call EXCEPT !.fileName = FileName(call.uuid)]
       IN \E readOk \in BOOLEAN :
            calls' = [calls EXCEPT ![c] =
                IF ExitFailed(call.status) THEN
                    Reject(call, <<"Mermaid CLI failed">>)
                ELSE IF tmp[dir].png = NoCall \/ ~readOk THEN
                    Reject(named, <<"ENOENT: no such file or directory, open ",
                                    "diagram.png">>)
                ELSE [named EXCEPT !.pc = "uploading", !.persists = @ + 1]]
    /\ tmp' = IF calls'[c].pc = "uploading"
              THEN AwaitingUpload(calls[c].tempDir) ELSE tmp
    /\ UNCHANGED <<http, cli, ui, variant, bucketName, cdnDomain, alive, busy, gen,
                   publicDir, store, usedUuids, adapter>>

\* route.ts:167-189: the 'close' listener of the legacy generateCodeImage;
\* the image is copied to `${outputUuid}.png` in the working directory
LegacyCodeClose(c) ==
    /\ alive /\ busy = NoCall
    /\ variant = "legacy"
    /\ calls[c].pc = "waiting" /\ calls[c].kind = "code"
    /\ ProcTerminated(c)
    /\ LET call == calls[c]
           dir == call.tempDir
           named == [call EXCEPT !.fileName = FileName(call.uuid),
                                 !.persists = @ + 1]
       IN \E copyOk \in BOOLEAN, rmOk \in BOOLEAN, survives \in UncaughtOutcomes :
            IF ExitFailed(call.status) THEN
                /\ calls' = [calls EXCEPT ![c] = Reject(call, <<"Carbon CLI failed">>)]
                /\ UNCHANGED <<tmp, store, alive>>
            ELSE IF tmp[dir].png = NoCall THEN
                /\ calls' = [calls EXCEPT ![c] = Reject(call, <<"No image was generated">>)]
                /\ UNCHANGED <<tmp, store, alive>>
            ELSE IF ~copyOk THEN
                /\ calls' = [calls EXCEPT ![c] = Uncaught(named, <<"ENOSPC: copyfile">>)]
                /\ alive' = survives
                /\ UNCHANGED <<tmp, store>>
            ELSE IF ~rmOk THEN
                /\ calls' = [calls EXCEPT ![c] = Uncaught(named, <<"EBUSY: rm">>)]
                /\ store' = PutStore(named.fileName, tmp[dir].png)
                /\ alive' = survives
                /\ UNCHANGED tmp
            ELSE
                /\ calls' = [calls EXCEPT ![c] = Resolve(named, named.fileName)]
                /\ store' = PutStore(named.fileName, tmp[dir].png)
                /\ tmp' = RemoveDir(dir)
                /\ UNCHANGED alive
    /\ UNCHANGED <<http, cli, ui, variant, bucketName, cdnDomain, busy, gen, publicDir,
                   usedUuids, adapter>>

\* route.ts:229-240: the 'close' listener of the legacy generateDiagramImage;
\* every diagram is copied to the fixed name 'diagram.png'
LegacyDiagramName == <<"diagram.png">>

LegacyDiagramClose(c) ==
    /\ alive /\ busy = NoCall
    /\ variant = "legacy"
    /\ calls[c].pc = "waiting" /\ calls[c].kind = "diagram"
    /\ ProcTerminated(c)
    /\ LET call == calls[c]
           dir == call.tempDir
           named == [call EXCEPT !.fileName = LegacyDiagramName,
                                 !.persists = @ + 1]
       IN \E copyOk \in BOOLEAN, rmOk \in BOOLEAN, survives \in UncaughtOutcomes :
            IF ExitFailed(call.status) THEN
                /\ calls' = [calls EXCEPT ![c] = Reject(call, <<"Mermaid CLI failed">>)]
                /\ UNCHANGED <<tmp, store, alive>>
            ELSE IF tmp[dir].png = NoCall \/ ~copyOk THEN
                /\ calls' = [calls EXCEPT ![c] = Uncaught(named, <<"ENOENT: copyfile">>)]
                /\ alive' = survives
                /\ UNCHANGED <<tmp, store>>
            ELSE IF ~rmOk THEN
                /\ calls' = [calls EXCEPT ![c] = Uncaught(named, <<"EBUSY: rm">>)]
                /\ store' = PutStore(named.fileName, tmp[dir].png)
                /\ alive' = survives
                /\ UNCHANGED tmp
            ELSE
                /\ calls' = [calls EXCEPT ![c] = Resolve(named, named.fileName)]
                /\ store' = PutStore(named.fileName, tmp[dir].png)
                /\ tmp' = RemoveDir(dir)
                /\ UNCHANGED alive
    /\ UNCHANGED <<http, cli, ui, variant, bucketName, cdnDomain, busy, gen, publicDir,
                   usedUuids, adapter>>

\* ------------------------------------------------- calls made by a caller
\* slots are taken in order
NextFree(c) ==
    /\ calls[c].pc = "idle"
    /\ \A d \in CallIds : d < c => calls[d].pc # "idle"

\* generateCodeImage(code): blocking in part_000/part_002, event-based in
\* route.ts
generateCodeImage(c, owner, index) ==
    IF variant = "legacy"
    THEN AsyncBegin(c, "code", owner, index)
    ELSE CodeSyncBegin(c, owner, index)

\* generateDiagramImage(diagram_code)
generateDiagramImage(c, owner, index) ==
    AsyncBegin(c, "diagram", owner, index)

CallCode(c) ==
    /\ gen = "ready" /\ NextFree(c)
    /\ generateCodeImage(c, Direct, 0)
    /\ UNCHANGED <<gen, adapter>>

CallDiagram(c) ==
    /\ gen = "ready" /\ NextFree(c)
    /\ generateDiagramImage(c, Direct, 0)
    /\ UNCHANGED <<gen, adapter>>

\* ------------------------------------- receive_important_code_snippets
\* all sequences over S of length at most n
RECURSIVE SeqsUpTo(_, _)
SeqsUpTo(S, n) ==
    IF n = 0 THEN {<<>>}
    ELSE LET shorter == SeqsUpTo(S, n - 1)
         IN shorter \cup {Append(q, x) : q \in shorter, x \in S}

\* JSON.stringify(codeSnippetsWithImages)
RECURSIVE JsonItems(_)
JsonItems(pairs) ==
    IF pairs = <<>> THEN <<>>
    ELSE <<"{snippet:", Head(pairs).snippet, ",image_path:">>
         \o Head(pairs).image_path \o <<"}">>
         \o (IF Tail(pairs) = <<>> THEN <<>> ELSE <<",">>)
         \o JsonItems(Tail(pairs))

JsonStringify(pairs) == <<"[">> \o JsonItems(pairs) \o <<"]">>

\* agent.ts:34-41 (route.ts:250-258): the adapter is called; it constructs
\* its ContentGenerator inside the outer try block.  `iterable` is FALSE
\* when the argument cannot be iterated (or, in route.ts, parsed).
AdapterStart ==
    /\ alive /\ busy = NoCall
    /\ adapter.pc = "idle"
    /\ \E snippets \in SeqsUpTo(SnippetTexts, MaxSnippets), iterable \in BOOLEAN :
         IF ConstructorThrows THEN
             /\ adapter' = [adapter EXCEPT !.pc = "failed", !.snippets = snippets,
                                !.error = Wrap(AdapterPrefix, ConfigError)]
             /\ UNCHANGED publicDir
         ELSE IF ~iterable THEN
             /\ adapter' = [adapter EXCEPT !.pc = "failed",
                                !.error = Wrap(AdapterPrefix, <<"snippets is not iterable">>)]
             /\ publicDir' = ConstructorPublicDir
         ELSE
             /\ adapter' = [adapter EXCEPT !.pc = "loop", !.snippets = snippets,
                                !.idx = 1]
             /\ publicDir' = ConstructorPublicDir
    /\ UNCHANGED <<http, cli, ui, variant, bucketName, cdnDomain, alive, busy, gen, calls,
                   tmp, store, usedUuids>>

\* agent.ts:43-46: the loop takes the next snippet and awaits
\* contentGenerator.generateCodeImage(snippet.snippet)
AdapterInvoke(c) ==
    /\ adapter.pc = "loop"
    /\ adapter.idx <= Len(adapter.snippets)
    /\ NextFree(c)
    /\ generateCodeImage(c, Adapter, adapter.idx)
    /\ adapter' = [adapter EXCEPT !.pc = "awaiting", !.cur = c,
                                  !.renders = @ + 1]
    /\ UNCHANGED gen

\* the push moved out of the try block: a pair for every snippet
Collect_Always(out, call, pair) == Append(out, pair)

\* agent.ts:46-51: push the pair when the awaited call returned, only log
\* when it threw
Collect(out, call, pair) ==
    IF call.pc = "resolved" THEN Append(out, pair) ELSE out

\* a loop that tries a failed snippet again
NextSnippet_RetryFailed(idx, call) ==
    IF call.pc = "rejected" THEN idx ELSE idx + 1

\* agent.ts:43: `for (const snippet of snippets)` goes on to the next
\* snippet whether the body pushed a pair or caught an error
NextSnippet(idx, call) == idx + 1

\* agent.ts:46-52: the awaited call has settled; push the pair or log the
\* error, then go on with the next snippet
AdapterResume ==
    /\ alive /\ busy = NoCall
    /\ adapter.pc = "awaiting"
    /\ Settled(adapter.cur)
    /\ LET call == calls[adapter.cur]
           pair == [snippet |-> adapter.snippets[adapter.idx],
                    image_path |-> call.result]
       IN adapter' = [adapter EXCEPT
              !.pc = "loop",
              !.cur = NoCall,
              !.idx = NextSnippet(@, call),
              !.out = Collect(@, call, pair)]
    /\ UNCHANGED <<http, cli, ui, variant, bucketName, cdnDomain, alive, busy, gen, calls,
                   tmp, publicDir, store, usedUuids>>

\* agent.ts:54-56: the loop is over; return JSON.stringify(...)
AdapterReturn ==
    /\ alive /\ busy = NoCall
    /\ adapter.pc = "loop"
    /\ adapter.idx > Len(adapter.snippets)
    /\ adapter' = [adapter EXCEPT !.pc = "done", !.ret = JsonStringify(adapter.out)]
    /\ UNCHANGED <<http, cli, ui, variant, bucketName, cdnDomain, alive, busy, gen, calls,
                   tmp, publicDir, store, usedUuids>>

\* -------------------------------------------------------------------- Next
\* steps of a generateCodeImage call, whoever made it
CodeStep ==
    \/ \E c \in CallIds : calls[c].kind = "code" /\ ProcExit(c)
    \/ \E c \in CallIds : CodeSyncReturnLocal(c)
    \/ \E c \in CallIds : CodeSyncReturnRemote(c)
    \/ \E c \in CallIds : calls[c].kind = "code" /\ UploadSettle(c)
    \/ \E c \in CallIds : calls[c].kind = "code" /\ SpawnError(c)
    \/ \E c \in CallIds : LegacyCodeClose(c)

\* steps of a generateDiagramImage call
DiagramStep ==
    \/ \E c \in CallIds : calls[c].kind = "diagram" /\ ProcExit(c)
    \/ \E c \in CallIds : calls[c].kind = "diagram" /\ UploadSettle(c)
    \/ \E c \in CallIds : calls[c].kind = "diagram" /\ SpawnError(c)
    \/ \E c \in CallIds : DiagramCloseLocal(c)
    \/ \E c \in CallIds : DiagramCloseRemote(c)
    \/ \E c \in CallIds : LegacyDiagramClose(c)

\* concurrent calls made directly on one ContentGenerator
Next ==
    \/ NewContentGenerator
    \/ \E c \in CallIds : CallCode(c)
    \/ \E c \in CallIds : CallDiagram(c)
    \/ CodeStep
    \/ DiagramStep

Spec == Init /\ [][Next]_vars

\* one run of the agent tool receive_important_code_snippets
NextAdapter ==
    \/ AdapterStart
    \/ \E c \in CallIds : AdapterInvoke(c)
    \/ AdapterResume
    \/ AdapterReturn
    \/ CodeStep

SpecAdapter == Init /\ [][NextAdapter]_vars

TypeOK ==
    /\ variant \in Variants
    /\ busy \in CallIds \cup {NoCall}
    /\ gen \in {"none", "ready", "failed"}
    /\ \A c \in CallIds :
         /\ calls[c].pc \in {"idle", "waiting", "uploading", "resolved",
                             "rejected", "uncaught"}
         /\ calls[c].proc \in {"none", "running", "exited", "failed"}
         /\ calls[c].status \in ExitStatuses
    /\ adapter.pc \in {"idle", "loop", "awaiting", "done", "failed"}

\* ================================================================ claims
PrefixOf(kind) == IF kind = "code" THEN CodePrefix ELSE DiagramPrefix

\* C1 (as claimed): whenever a call has returned a reference or raised an
\* error, the workspace it created no longer exists.
C1_WorkspaceGoneWhenSettled ==
    \A c \in CallIds : Settled(c) => ~WorkspaceExists(c)

\* C2: once the renderer of a call has exited with a non-zero status, the
\* call can only be waiting for its handler or rejected; it never names,
\* copies or uploads an artifact, and nothing of its output is in the store.
C2_NonZeroExitNeverPersists ==
    \A c \in CallIds :
        (calls[c].proc = "exited" /\ calls[c].status # 0) =>
            /\ calls[c].pc \in {"waiting", "rejected"}
            /\ calls[c].pc = "rejected" => calls[c].error # NoMsg
            /\ calls[c].persists = 0
            /\ calls[c].fileName = NoName
            /\ \A e \in store : e.content # c

\* a call was rejected after a non-zero exit although the renderer had
\* left an image in the workspace
C2_Witness ==
    \E c \in CallIds :
        /\ calls[c].proc = "exited" /\ calls[c].status # 0
        /\ calls[c].pc = "rejected"
        /\ WorkspaceExists(c) /\ tmp[calls[c].tempDir].png = c

\* C3 (as claimed): when the renderer exited with status 0 and left no
\* output file, the handler of the call rejects the call with an error.
C3_NoArtifactIsRaised ==
    \A c \in CallIds :
        ( /\ calls[c].proc = "exited" /\ calls[c].status = 0
          /\ WorkspaceExists(c) /\ tmp[calls[c].tempDir].png = NoCall
          /\ calls[c].pc # "waiting" ) =>
            calls[c].pc = "rejected"

\* C4 (as claimed): when the renderer could not be started, the call is
\* rejected with the launch error and its workspace is removed.
C4_LaunchFailureRaisedAndCleaned ==
    \A c \in CallIds :
        (calls[c].proc = "failed" /\ calls[c].pc # "waiting") =>
            /\ calls[c].pc = "rejected"
            /\ ~WorkspaceExists(c)

\* C5 (as claimed): every error that reaches the caller starts with the
\* prefix of its operation.
C5_EveryErrorPrefixed ==
    \A c \in CallIds :
        calls[c].pc = "rejected" => Head(calls[c].error) = PrefixOf(calls[c].kind)

\* the adapter's call for snippet i
Invoked(i) ==
    \E c \in CallIds : calls[c].owner = Adapter /\ calls[c].index = i
OwnedCall(i) ==
    CHOOSE c \in CallIds : calls[c].owner = Adapter /\ calls[c].index = i

\* the pairs of the snippets from position i on whose call returned
RECURSIVE ExpectedFrom(_)
ExpectedFrom(i) ==
    IF i > Len(adapter.snippets) THEN <<>>
    ELSE (IF Invoked(i) /\ calls[OwnedCall(i)].pc = "resolved"
          THEN <<[snippet |-> adapter.snippets[i],
                  image_path |-> calls[OwnedCall(i)].result]>>
          ELSE <<>>) \o ExpectedFrom(i + 1)

\* C6: a failed render never makes the adapter call fail (it fails only
\* before the first render), and when the adapter returns, every snippet
\* has had its call settled and the returned JSON holds, in input order,
\* exactly the pairs of the snippets whose call returned a reference.
C6_FailedSnippetsSkipped ==
    /\ adapter.pc = "failed" => adapter.renders = 0
    /\ adapter.pc = "done" =>
         /\ \A i \in 1..Len(adapter.snippets) :
                Invoked(i) /\ Settled(OwnedCall(i))
         /\ adapter.out = ExpectedFrom(1)
         /\ adapter.ret = JsonStringify(ExpectedFrom(1))

\* the adapter returned one pair after the first of two renders had failed
C6_Witness ==
    /\ adapter.pc = "done"
    /\ Len(adapter.snippets) = 2
    /\ Invoked(1) /\ calls[OwnedCall(1)].pc = "rejected"
    /\ Invoked(2) /\ calls[OwnedCall(2)].pc = "resolved"
    /\ Len(adapter.out) = 1
    /\ adapter.out[1].snippet = adapter.snippets[2]

\* C7: while the renderer of a call is running, the call is still waiting:
\* it has named, copied or uploaded nothing, its workspace is on disk and
\* its result is not settled.
C7_NothingBeforeExit ==
    \A c \in CallIds :
        calls[c].proc = "running" =>
            /\ calls[c].pc = "waiting"
            /\ calls[c].persists = 0
            /\ calls[c].fileName = NoName
            /\ calls[c].result = NoMsg /\ calls[c].error = NoMsg
            /\ WorkspaceExists(c)
            /\ \A e \in store : e.content # c

\* one call has gone through all its steps after its renderer exited while
\* the renderer of another call is still running
C7_Witness ==
    \E c, d \in CallIds :
        /\ calls[c].pc = "resolved" /\ calls[c].proc = "exited"
        /\ calls[c].persists = 1 /\ ~WorkspaceExists(c)
        /\ calls[d].proc = "running"

\* C8 (as claimed): two calls never share a workspace or an artifact name,
\* and two successful calls return different references.
C8_NoCollisions ==
    \A c, d \in CallIds :
        c # d =>
            /\ (WorkspaceExists(c) /\ WorkspaceExists(d)) =>
                   calls[c].tempDir # calls[d].tempDir
            /\ (calls[c].fileName # NoName /\ calls[d].fileName # NoName) =>
                   calls[c].fileName # calls[d].fileName
            /\ (calls[c].pc = "resolved" /\ calls[d].pc = "resolved") =>
                   calls[c].result # calls[d].result

\* workspaces created by calls of the adapter that are on disk
AdapterWorkspaces ==
    {d \in DOMAIN tmp : calls[tmp[d].owner].owner = Adapter}

\* C9 (as claimed): the adapter has at most one call in progress, and at
\* most one workspace of the adapter call exists at any moment.
C9_OneAtATime ==
    /\ Cardinality({c \in CallIds : calls[c].owner = Adapter
                                    /\ calls[c].pc \in {"waiting", "uploading"}}) <= 1
    /\ Cardinality(AdapterWorkspaces) <= 1

\* C10: with the remote variant and an empty bucket name no ContentGenerator
\* is ever constructed: the adapter call can only fail, with the
\* configuration error, and no workspace, renderer or upload ever exists.
C10_MissingBucketFailsFirst ==
    (variant = "remote" /\ bucketName = "") =>
        /\ gen # "ready"
        /\ adapter.pc \in {"idle", "failed"}
        /\ adapter.pc = "failed" => adapter.error = Wrap(AdapterPrefix, ConfigError)
        /\ adapter.renders = 0
        /\ \A c \in CallIds : calls[c] = IdleCall
        /\ DOMAIN tmp = {}
        /\ store = {}

\* the adapter call failed on the missing bucket although it had snippets
C10_Witness ==
    /\ variant = "remote" /\ bucketName = ""
    /\ adapter.pc = "failed"
    /\ Len(adapter.snippets) = 2


\* C11: in the remote variant a call that returned has returned exactly
\* https://<cdnDomain>/generated-images/<uuid>.png when a CDN domain is
\* configured and https://<bucket>.s3.amazonaws.com/generated-images/<uuid>.png
\* otherwise, and the object generated-images/<uuid>.png holding the
\* renderer's output is in the bucket by then.
C11_RemoteUrlAfterUpload ==
    \A c \in CallIds :
        (variant = "remote" /\ calls[c].pc = "resolved") =>
            /\ calls[c].result =
                 IF cdnDomain # ""
                 THEN <<"https://", cdnDomain, "/", "generated-images/",
                        UuidText(calls[c].uuid), ".png">>
                 ELSE <<"https://", bucketName, ".s3.amazonaws.com/",
                        "generated-images/", UuidText(calls[c].uuid), ".png">>
            /\ [name |-> <<"generated-images/", UuidText(calls[c].uuid), ".png">>,
                content |-> c] \in store

\* a remote call returned a CDN URL
C11_Witness ==
    \E c \in CallIds :
        /\ variant = "remote" /\ cdnDomain # ""
        /\ calls[c].pc = "resolved"
        /\ calls[c].result[2] = cdnDomain

\* C12: in the local variant a call that returned has returned
\* /generated-images/<uuid>.png, and the file <uuid>.png in the public
\* directory holds the output its renderer left in the workspace.
C12_LocalCopyIdentical ==
    \A c \in CallIds :
        (variant = "local" /\ calls[c].pc = "resolved") =>
            /\ calls[c].result =
                 <<"/generated-images/", UuidText(calls[c].uuid), ".png">>
            /\ publicDir
            /\ [name |-> <<UuidText(calls[c].uuid), ".png">>, content |-> c] \in store

\* two local calls, one for code and one for a diagram, have returned
C12_Witness ==
    /\ variant = "local"
    /\ \E c, d \in CallIds :
        /\ calls[c].pc = "resolved" /\ calls[c].kind = "code"
        /\ calls[d].pc = "resolved" /\ calls[d].kind = "diagram"


\* ------------------------------------------------- the route's pattern
\* the characters of a token of a reference string
TokenChars(tok) ==
    CASE tok = "/generated-images/" -> <<"/", "g", "e", "n", "e", "r", "a", "t", "e", "d", "-", "i", "m", "a", "g", "e", "s", "/">>
      [] tok = "generated-images/" -> <<"g", "e", "n", "e", "r", "a", "t", "e", "d", "-", "i", "m", "a", "g", "e", "s", "/">>
      [] tok = ".png" -> <<".", "p", "n", "g">>
      [] tok = "https://" -> <<"h", "t", "t", "p", "s", ":", "/", "/">>
      [] tok = "/" -> <<"/">>
      [] tok = ".s3.amazonaws.com/" -> <<".", "s", "3", ".", "a", "m", "a", "z", "o", "n", "a", "w", "s", ".", "c", "o", "m", "/">>
      [] tok = "bkt" -> <<"b", "k", "t">>
      [] tok = "cdn.example" -> <<"c", "d", "n", ".", "e", "x", "a", "m", "p", "l", "e">>
      [] tok = "diagram.png" -> <<"d", "i", "a", "g", "r", "a", "m", ".", "p", "n", "g">>
      [] tok = "1b-4a" -> <<"1", "b", "-", "4", "a">>
      [] tok = "2c-4b" -> <<"2", "c", "-", "4", "b">>
      [] tok = "3d-4c" -> <<"3", "d", "-", "4", "c">>
      [] tok = "4e-4d" -> <<"4", "e", "-", "4", "d">>

\* the reference as the string of characters the agent's message holds
RECURSIVE Flatten(_)
Flatten(ref) ==
    IF ref = <<>> THEN <<>> ELSE TokenChars(Head(ref)) \o Flatten(Tail(ref))

\* \w of a JavaScript regular expression
WordChars ==
    {"a", "b", "c", "d", "e", "f", "g", "h", "i", "j", "k", "l", "m",
     "n", "o", "p", "q", "r", "s", "t", "u", "v", "w", "x", "y", "z",
     "A", "B", "C", "D", "E", "F", "G", "H", "I", "J", "K", "L", "M",
     "N", "O", "P", "Q", "R", "S", "T", "U", "V", "W", "X", "Y", "Z",
     "0", "1", "2", "3", "4", "5", "6", "7", "8", "9", "_"}

\* [\w-]
InClass(chr) == chr \in WordChars \/ chr = "-"

\* the literal `lit` stands in `text` at position i
LiteralAt(text, i, lit) ==
    /\ i + Len(lit) - 1 <= Len(text)
    /\ \A k \in 1..Len(lit) : text[i + k - 1] = lit[k]

\* route.ts:66: /\/generated-images\/[\w-]+\.png/ matches at position i of
\* `text` with n characters taken by [\w-]+
MatchAt(text, i, n) ==
    LET lit == TokenChars("/generated-images/")
        from == i + Len(lit)
    IN /\ LiteralAt(text, i, lit)
       /\ n >= 1
       /\ from + n - 1 <= Len(text)
       /\ \A k \in 0..(n - 1) : InClass(text[from + k])
       /\ LiteralAt(text, from + n, TokenChars(".png"))

\* String.prototype.match finds at least one occurrence of the pattern
PatternMatches(text) ==
    \E i \in 1..Len(text), n \in 1..Len(text) : MatchAt(text, i, n)

\* prose the agent may put before and after a reference
Proses == {<<>>, <<" ">>, <<"a">>, <<"(">>}

\* C13: every reference returned by the local and by the remote
\* ContentGenerator, standing verbatim in a message text between any
\* prose, is found by the image-extraction pattern of the route.
C13_ReferencesRecognised ==
    \A c \in CallIds :
        (variant \in {"local", "remote"} /\ calls[c].pc = "resolved") =>
            \A before \in Proses, after \in Proses :
                PatternMatches(before \o Flatten(calls[c].result) \o after)

\* a remote diagram call has returned a storage URL
C13_Witness ==
    \E c \in CallIds :
        /\ calls[c].pc = "resolved"
        /\ variant = "remote" /\ cdnDomain = ""
        /\ calls[c].kind = "diagram"


\* ------------------------------------------------------------------- POST
MaxPieces == 2       \* pieces of text in the agent's final message

\* the longest n with which the pattern matches at position i
GreedyLen(text, i) ==
    CHOOSE n \in 1..Len(text) :
        /\ MatchAt(text, i, n)
        /\ \A m \in 1..Len(text) : MatchAt(text, i, m) => m <= n

\* text.match(/.../g): the occurrences from position i on, left to right,
\* each search resuming behind the previous occurrence
RECURSIVE MatchAllFrom(_, _)
MatchAllFrom(text, i) ==
    IF i > Len(text) THEN <<>>
    ELSE IF \E n \in 1..Len(text) : MatchAt(text, i, n)
    THEN LET len == Len(TokenChars("/generated-images/")) + GreedyLen(text, i)
                    + Len(TokenChars(".png"))
         IN <<SubSeq(text, i, i + len - 1)>> \o MatchAllFrom(text, i + len)
    ELSE MatchAllFrom(text, i + 1)

\* route.ts:65-67: `content.match(pattern) || []`
extractImagePaths(text) == MatchAllFrom(text, 1)

\* what req.json() yields: a syntax error, the value null, a body whose
\* messages field is missing, null or not an array, an array holding a
\* null, or an array of message objects
BodyShapes == {"malformed", "nullBody", "missing", "null", "notArray",
               "arrayWithNull", "emptyArray", "array"}

\* reference strings and prose that may stand in the final message
RefPieces ==
    {LocalRef(FileName(1)), LocalRef(FileName(2)),
     <<"https://", "cdn.example", "/">> \o S3Key(FileName(1)),
     <<"https://", "bkt", ".s3.amazonaws.com/">> \o S3Key(FileName(2)),
     FileName(1), <<"diagram.png">>}
TextPieces == {Flatten(r) : r \in RefPieces} \cup {<<"s", "e", "e", " ">>}

RECURSIVE Concat(_)
Concat(seqs) == IF seqs = <<>> THEN <<>> ELSE Head(seqs) \o Concat(Tail(seqs))

\* the final message as the pieces it is made of
FinalParts == SeqsUpTo(TextPieces, MaxPieces)

FinalTexts == {Concat(q) : q \in FinalParts}

\* a handler that hands the error text to the client
ErrorReply_Leaky(h, err) ==
    [h EXCEPT !.pc = "responded", !.raised = err, !.status = 500,
              !.message = <<"An error occurred while processing your request: ">> \o err]

\* route.ts:98-103, part_003:60-72: the catch clause of POST
ErrorReply(h, err) ==
    [h EXCEPT !.pc = "responded", !.raised = err, !.status = 500,
              !.message = <<"An error occurred while processing your request">>]

\* route.ts:73-75, part_003:15-25
BadRequestReply(h) ==
    [h EXCEPT !.pc = "responded", !.status = 400,
              !.message = <<"Messages array is required">>]

\* only `!messages`: a string or an object passes as messages
MessagesRejected_Falsy(shape) == shape \in {"missing", "null"}

\* `!messages || !Array.isArray(messages)`
MessagesRejected(shape) == shape \in {"missing", "null", "notArray"}

\* route.ts:70-87, part_003:12-41: the request arrives; parse the body,
\* check the messages field, format the messages and start the agent run
PostReceive ==
    /\ http.pc = "idle"
    /\ \E impl \in RouteImpls, shape \in BodyShapes :
         LET h == [http EXCEPT !.impl = impl, !.req = shape]
         IN http' =
              IF shape = "malformed" THEN
                  ErrorReply(h, <<"Unexpected token in JSON">>)
              ELSE IF shape = "nullBody" THEN
                  ErrorReply(h, <<"Cannot destructure property 'messages' of null">>)
              ELSE IF MessagesRejected(shape) THEN
                  BadRequestReply(h)
              ELSE IF shape = "arrayWithNull" THEN
                  ErrorReply(h, <<"Cannot read properties of null (reading 'role')">>)
              ELSE [h EXCEPT !.pc = "agent", !.agentRan = TRUE]
    /\ UNCHANGED <<coreVars, cli, ui>>

\* route.ts:83-96, part_003:37-59: client.run settles; it threw, or it
\* returned a response whose messages are empty, end in a message with
\* null content, or end in a text.  part_003 reads messages[-1], which is
\* undefined for every array.
PostAgentSettle ==
    /\ http.pc = "agent"
    /\ \E outcome \in {"throws", "noMessages", "nullContent", "text"},
          parts \in FinalParts :
         LET text == Concat(parts)
             h == [http EXCEPT !.agent = outcome,
                               !.parts = IF outcome = "text" THEN parts ELSE <<>>,
                               !.final = IF outcome = "text" THEN text ELSE <<>>]
         IN http' =
              IF outcome = "throws" THEN
                  ErrorReply(h, <<"agent run failed">>)
              ELSE IF h.impl = "part_003" \/ outcome = "noMessages" THEN
                  ErrorReply(h, <<"Cannot read properties of undefined (reading 'content')">>)
              ELSE IF outcome = "nullContent" THEN
                  ErrorReply(h, <<"Cannot read properties of null (reading 'match')">>)
              ELSE [h EXCEPT !.pc = "responded", !.status = 200,
                             !.response = text,
                             !.images = extractImagePaths(text)]
    /\ UNCHANGED <<coreVars, cli, ui>>

NextPost ==
    \/ PostReceive
    \/ PostAgentSettle

\* the service is up and no request has arrived
InitPost ==
    /\ InitCore
    /\ http = IdleHttp("")
    /\ cli = IdleCli
    /\ ui = IdleUi

SpecPost == InitPost /\ [][NextPost]_vars

\* C14: whenever something raised while POST handled the request, the
\* response has status 500 and carries exactly the fixed message, no agent
\* response, no images and no piece of the raised error's text.
C14_ErrorsBecomeGeneric500 ==
    http.raised # NoMsg =>
        /\ http.pc = "responded"
        /\ http.status = 500
        /\ http.message = <<"An error occurred while processing your request">>
        /\ http.response = <<>> /\ http.images = <<>>
        /\ \A i \in 1..Len(http.raised), j \in 1..Len(http.message) :
               http.message[j] # http.raised[i]

\* the image extraction raised after the agent had run
C14_Witness ==
    /\ http.agentRan
    /\ http.impl = "route.ts"
    /\ http.raised = <<"Cannot read properties of null (reading 'match')">>
    /\ http.status = 500


\* ---------------------------------------------------------- command line
PresetNames == {"", "night-owl", "one-dark", "dracula"}
PresetArgs == {Undefined} \cup {<<p>> : p \in PresetNames}

\* JavaScript truthiness of an optional string: undefined and '' are falsy
Truthy(p) == p # Undefined /\ p[1] # ""

\* a || b
Or(a, b) == IF Truthy(a) THEN a ELSE b

\* part_000:31-37, route.ts:158-162; part_002:63-72, where the chosen
\* preset is replaced by the literal 'openai' and a --config flag follows
BuildCommand(v, configured, explicit) ==
    LET base == <<"carbon-now", "tempFile", "--save-to", "tempDir">>
        selectedPreset ==
            IF v = "remote" THEN <<"openai">>
            ELSE Or(Or(explicit, configured), <<"dracula">>)
        preset ==
            IF Truthy(Or(explicit, configured))
            THEN <<"-p", selectedPreset[1]>> ELSE <<>>
        config ==
            IF v = "remote" THEN <<"--config", "carbon-now.json">> ELSE <<>>
    IN base \o preset \o config

\* new ContentGenerator(preset_name): the constructor keeps the default
CliConstruct ==
    /\ cli.pc = "none"
    /\ \E p \in PresetArgs :
         cli' = [cli EXCEPT !.pc = "constructed", !.configured = p]
    /\ UNCHANGED <<coreVars, http, ui>>

\* generateCodeImage(code, preset_name) up to the spawn of carbon-now
CliBuild ==
    /\ cli.pc = "constructed"
    /\ \E p \in PresetArgs :
         cli' = [cli EXCEPT !.pc = "built", !.explicit = p,
                            !.command = BuildCommand(variant, cli.configured, p)]
    /\ UNCHANGED <<coreVars, http, ui>>

NextCli ==
    \/ CliConstruct
    \/ CliBuild

\* no generator has been constructed
InitCli ==
    /\ InitCore
    /\ http = IdleHttp("")
    /\ cli = IdleCli
    /\ ui = IdleUi

SpecCli == InitCli /\ [][NextCli]_vars

\* the values that follow a '-p' on a command line
PresetFlagValues(command) ==
    {command[i + 1] : i \in {j \in 1..(Len(command) - 1) : command[j] = "-p"}}

\* C15: the command line of every code call holds a preset flag, and its
\* value is the explicit preset, else the configured one, else 'dracula'.
C15_PresetPriority ==
    cli.pc = "built" =>
        PresetFlagValues(cli.command) =
            {IF cli.explicit # Undefined /\ cli.explicit[1] # ""
               THEN cli.explicit[1]
             ELSE IF cli.configured # Undefined /\ cli.configured[1] # ""
               THEN cli.configured[1]
             ELSE "dracula"}


\* --------------------------------------------------------- failure errors
\* the renderer failure a call ran into, told from what happened to its
\* process and workspace: it could not be started, it exited non-zero, it
\* exited zero and the call ended before any output file was named
FailureOf(c) ==
    LET call == calls[c]
    IN IF call.proc = "failed" THEN "launch"
       ELSE IF call.proc = "exited" /\ call.status # 0 THEN "nonzero"
       ELSE IF /\ call.proc = "exited" /\ call.status = 0
               /\ call.pc \in {"rejected", "uncaught"}
               /\ call.persists = 0 /\ call.result = NoMsg
               /\ call.fileName = NoName
            THEN "nooutput"
       ELSE "none"

Contains(msg, piece) == \E i \in 1..Len(msg) : msg[i] = piece

\* C16: a call whose renderer failed and which is past its wait has raised
\* to its caller; calls that failed for different reasons carry different
\* errors; the error of a non-zero exit holds the exit code and the
\* captured standard error.
C16_FailuresDistinctAndDetailed ==
    /\ \A c \in CallIds :
         (FailureOf(c) # "none" /\ calls[c].pc # "waiting") =>
             calls[c].pc = "rejected"
    /\ \A c, d \in CallIds :
         (/\ calls[c].pc = "rejected" /\ calls[d].pc = "rejected"
          /\ calls[c].kind = calls[d].kind
          /\ FailureOf(c) # "none" /\ FailureOf(d) # "none"
          /\ FailureOf(c) # FailureOf(d)) =>
             calls[c].error # calls[d].error
    /\ \A c \in CallIds :
         (calls[c].pc = "rejected" /\ FailureOf(c) = "nonzero") =>
             /\ Contains(calls[c].error, StatusText(calls[c].status))
             /\ calls[c].stderr # NoMsg =>
                    Contains(calls[c].error, calls[c].stderr[1])


\* ---------------------------------------------------------------- retries
\* the generateCodeImage calls the adapter made for its snippet number i
CallsFor(i) ==
    {c \in CallIds : calls[c].owner = Adapter /\ calls[c].kind # "none"
                     /\ calls[c].index = i}

\* C17: no call spawns its renderer or writes the artifact store more than
\* once, and the adapter calls generateCodeImage once for each snippet it
\* has gone past, never twice for one snippet.
C17_NoRetries ==
    /\ \A c \in CallIds : calls[c].spawns <= 1 /\ calls[c].persists <= 1
    /\ \A i \in 1..MaxSnippets :
         /\ Cardinality(CallsFor(i)) <= 1
         /\ (adapter.pc \in {"loop", "done"} /\ i < adapter.idx) =>
                Cardinality(CallsFor(i)) = 1
    /\ adapter.pc = "done" => adapter.renders = Len(adapter.snippets)

\* the adapter returned after its first call had failed and its second
\* had spawned and persisted once
C17_Witness ==
    /\ adapter.pc = "done" /\ Len(adapter.snippets) = 2
    /\ \E c \in CallsFor(1) : calls[c].pc = "rejected" /\ calls[c].spawns = 1
    /\ \E c \in CallsFor(2) : calls[c].pc = "resolved" /\ calls[c].persists = 1


\* ------------------------------------------------------------------ order
\* the artifact store holds a file or object written from the output of c
PersistDone(c) == \E e \in store : e.content = c

\* C18: in every step, for every call: the renderer is spawned only with
\* the workspace on disk and the source written; a persist begins only
\* after the renderer has exited and from a workspace still on disk; the
\* workspace stays while an upload is awaited; the workspace goes only once
\* the persist has completed; and a reference is returned only after one
\* spawn, one persist and the removal of the workspace.
C18_StepsInOrder ==
    [][\A c \in CallIds :
         /\ (calls[c].spawns = 0 /\ calls'[c].spawns = 1) =>
                /\ WorkspaceExists(c)'
                /\ tmp'[calls'[c].tempDir].input
         /\ (calls'[c].persists > calls[c].persists) =>
                /\ calls[c].proc = "exited"
                /\ WorkspaceExists(c)
         /\ calls'[c].pc = "uploading" => WorkspaceExists(c)'
         /\ (WorkspaceExists(c) /\ ~WorkspaceExists(c)') =>
                /\ calls'[c].persists = 1
                /\ PersistDone(c)'
         /\ (calls[c].pc # "resolved" /\ calls'[c].pc = "resolved") =>
                /\ calls'[c].spawns = 1 /\ calls'[c].proc = "exited"
                /\ calls'[c].persists = 1 /\ PersistDone(c)'
                /\ ~WorkspaceExists(c)'
      ]_vars

\* a diagram call returned its URL after an awaited upload
C18_Witness ==
    \E c \in CallIds :
        /\ variant = "remote" /\ calls[c].kind = "diagram"
        /\ calls[c].pc = "resolved" /\ calls[c].result = S3Url(calls[c].fileName)
        /\ PersistDone(c) /\ ~WorkspaceExists(c)


\* ------------------------------------------------------- public directory
\* C19: with local storage, no step removes public/generated-images; a
\* successful construction leaves it present and leaves its files as they
\* were; and a copy is started, and the directory's files change, only
\* while it is present.
C19_PublicDirPresent ==
    [][variant = "local" =>
         /\ publicDir => publicDir'
         /\ (gen = "none" /\ gen' = "ready") =>
                publicDir' /\ store' = store
         /\ \A c \in CallIds :
                calls'[c].persists > calls[c].persists => publicDir
         /\ store' # store => publicDir
      ]_vars

\* a diagram was copied into the directory the constructor had provided
C19_Witness ==
    /\ variant = "local" /\ gen = "ready" /\ publicDir
    /\ \E c \in CallIds :
         /\ calls[c].kind = "diagram" /\ calls[c].pc = "resolved"
         /\ [name |-> calls[c].fileName, content |-> c] \in store


\* ------------------------------------------------------------ termination
\* C20: once the renderer of a call has exited or failed to start and the
\* call has nothing left to wait for (neither its exit callback nor an
\* upload), the call has returned a reference or raised an error.
C20_EveryCallSettles ==
    \A c \in CallIds :
        (/\ calls[c].proc \in {"exited", "failed"}
         /\ calls[c].pc \notin {"waiting", "uploading"}) =>
            Settled(c)


\* ------------------------------------------------------- POST, good path
\* C21: once POST has answered a request whose agent run returned, in
\* whatever shape, the status is 200 and nothing was raised.
C21_ReturnedAgentGives200 ==
    (/\ http.pc = "responded"
     /\ http.req \in {"emptyArray", "array"}
     /\ http.agent \in {"noMessages", "nullContent", "text"}) =>
        /\ http.status = 200
        /\ http.raised = NoMsg
        /\ http.response = http.final


\* the pieces that are references as ContentGenerator returns them: the
\* root-relative path of the local strategy, the full URL of the remote one
ReferenceTexts ==
    {Flatten(LocalRef(FileName(1))), Flatten(LocalRef(FileName(2))),
     Flatten(<<"https://", "cdn.example", "/">> \o S3Key(FileName(1))),
     Flatten(<<"https://", "bkt", ".s3.amazonaws.com/">> \o S3Key(FileName(2)))}

IsReference(piece) == piece \in ReferenceTexts

\* C22: when POST has answered a request whose agent run ended in a text,
\* the images list holds the references standing in that text, each one
\* character for character, in their order of appearance.
C22_ImagesAreTheReferences ==
    (/\ http.pc = "responded"
     /\ http.req \in {"emptyArray", "array"}
     /\ http.agent = "text") =>
        http.images = SelectSeq(http.parts, IsReference)


\* --------------------------------------------------------- POST, bad body
\* C23: a request whose messages field is missing, null or not an array is
\* answered with status 400 and 'Messages array is required'; nothing is
\* raised and the agent is never run for it.
C23_BadMessagesGive400 ==
    (http.req \in {"missing", "null", "notArray"}) =>
        /\ http.pc = "responded"
        /\ http.status = 400
        /\ http.message = <<"Messages array is required">>
        /\ http.raised = NoMsg
        /\ ~http.agentRan /\ http.agent = ""
        /\ http.response = <<>> /\ http.images = <<>>
        /\ \A c \in CallIds : calls[c].spawns = 0

\* the older handler turned down a messages field that is not an array
C23_Witness ==
    /\ http.impl = "part_003"
    /\ http.req = "notArray"
    /\ http.status = 400


\* ---------------------------------------------------------------- chat UI
MaxSubmits == 2      \* handleSubmit calls in one run

\* what the user may have typed, as characters
Inputs == {<<>>, <<" ">>, <<" ", " ">>, <<"h", "i">>, <<" ", "x", " ">>}

\* a trim that strips nothing
Trim_None(s) == s

\* String.prototype.trim: strip the white space at both ends
RECURSIVE Trim(_)
Trim(s) ==
    IF s = <<>> THEN <<>>
    ELSE IF Head(s) = " " THEN Trim(Tail(s))
    ELSE IF s[Len(s)] = " " THEN Trim(SubSeq(s, 1, Len(s) - 1))
    ELSE s

\* how the fetch of one request ends: it rejects, its body is not JSON, its
\* body is the {message} payload of a 400/500, or its body holds a response
\* whose last message has a text, or has none
FetchOutcomes == {"networkError", "notJson", "errorBody", "okText", "okNoContent"}

\* CodeReviewInterface.tsx:68-73: `data.response.messages` throws on a body
\* without a response; otherwise the content is the last message's content
\* or, when that is empty, data.response itself
ReplyTo(outcome) ==
    IF outcome = "okText"
        THEN [role |-> "assistant", content |-> <<"final text">>, error |-> FALSE]
    ELSE IF outcome = "okNoContent"
        THEN [role |-> "assistant", content |-> <<"[object Object]">>, error |-> FALSE]
    ELSE [role |-> "system",
          content |-> <<"An error occurred while processing your request.">>,
          error |-> TRUE]

\* onChange of the text input: setInputValue(e.target.value)
UiType ==
    /\ \E v \in Inputs : ui' = [ui EXCEPT !.inputValue = v]
    /\ UNCHANGED <<coreVars, http, cli>>

\* CodeReviewInterface.tsx:45-66: handleSubmit up to the await of fetch.
\* The submit button is disabled while isLoading, which also blocks the
\* implicit submission by the Enter key.
UiSubmit ==
    /\ ~ui.isLoading
    /\ ui.submits < MaxSubmits
    /\ ui' = IF Trim(ui.inputValue) = <<>>
             THEN [ui EXCEPT !.submits = @ + 1]
             ELSE [ui EXCEPT !.submits = @ + 1,
                             !.messages = Append(@, [role |-> "user",
                                                     content |-> ui.inputValue,
                                                     error |-> FALSE]),
                             !.inputValue = <<>>,
                             !.isLoading = TRUE,
                             !.pc = "fetching",
                             !.sent = @ + 1]
    /\ UNCHANGED <<coreVars, http, cli>>

\* CodeReviewInterface.tsx:67-92: the fetch settles; try, catch and finally
UiFetchSettle ==
    /\ ui.pc = "fetching"
    /\ \E outcome \in FetchOutcomes :
         ui' = [ui EXCEPT !.messages = Append(@, ReplyTo(outcome)),
                          !.isLoading = FALSE,
                          !.pc = "idle",
                          !.outcome = outcome]
    /\ UNCHANGED <<coreVars, http, cli>>

NextUi ==
    \/ UiType
    \/ UiSubmit
    \/ UiFetchSettle

\* the page has been loaded
InitUi ==
    /\ InitCore
    /\ http = IdleHttp("")
    /\ cli = IdleCli
    /\ ui = IdleUi

SpecUi == InitUi /\ [][NextUi]_vars

RolesOf(msgs, roles) == {i \in 1..Len(msgs) : msgs[i].role \in roles}

\* C24: a submit of blank input changes nothing and sends nothing; a submit
\* of other input appends one user message holding the input; the settling
\* of a fetch appends one reply, an assistant message for a body with a
\* response and a system error message otherwise, and ends the loading;
\* so user messages and replies alternate, one pair per request sent.
C24_OneReplyPerSubmit ==
    [][/\ (ui'.submits = ui.submits + 1
           /\ \A i \in 1..Len(ui.inputValue) : ui.inputValue[i] = " ") =>
              /\ ui'.messages = ui.messages /\ ui'.inputValue = ui.inputValue
              /\ ui'.isLoading = ui.isLoading /\ ui'.sent = ui.sent
       /\ (ui'.submits = ui.submits + 1
           /\ \E i \in 1..Len(ui.inputValue) : ui.inputValue[i] # " ") =>
              /\ ui'.messages = Append(ui.messages,
                     [role |-> "user", content |-> ui.inputValue, error |-> FALSE])
              /\ ui'.sent = ui.sent + 1 /\ ui'.isLoading
       /\ (ui.pc = "fetching" /\ ui'.pc = "idle") =>
              /\ Len(ui'.messages) = Len(ui.messages) + 1
              /\ ui'.messages[Len(ui'.messages)].role =
                     IF ui'.outcome \in {"okText", "okNoContent"}
                     THEN "assistant" ELSE "system"
              /\ ui'.messages[Len(ui'.messages)].error =
                     (ui'.outcome \notin {"okText", "okNoContent"})
              /\ ~ui'.isLoading
       /\ Cardinality(RolesOf(ui'.messages, {"user"})) = ui'.sent
       /\ Cardinality(RolesOf(ui'.messages, {"assistant", "system"})) =
              ui'.sent - (IF ui'.isLoading THEN 1 ELSE 0)
       /\ \A i \in 1..Len(ui'.messages) :
              (ui'.messages[i].role = "user") <=> (i % 2 = 1)
      ]_vars

\* a blank submit was ignored and a request ended in the system error reply
C24_Witness ==
    /\ ui.submits > ui.sent
    /\ ~ui.isLoading
    /\ Len(ui.messages) = 2
    /\ ui.messages[2].role = "system" /\ ui.messages[2].error

====
